---- MODULE Spec2Model ----
(***************************************************************************)
(* VIP Manager: the control loop of vip_manager.go with its two passes,    *)
(* AllocateIps and ReduceIps, and the engine that executes their           *)
(* operations (StartWorkers, Worker, ExecuteParallel, Execute,             *)
(* WaitForUpdate).                                                         *)
(*                                                                         *)
(* The main goroutine runs the loop.  Both passes end in ExecuteParallel,  *)
(* which hands operations to the Worker goroutines over the unbuffered     *)
(* channel `in` and collects their results from the unbuffered channel     *)
(* `out`.  The GCE inventory is the environment: per instance the alias    *)
(* IPs that GetInstance reports, and an update that GCE has accepted but   *)
(* that is not visible yet.  Go ranges over maps in no fixed order and GCE *)
(* lists alias IPs in no fixed order: each such order is a choice.         *)
(***************************************************************************)
EXTENDS Integers, Sequences, FiniteSets, TLC

\* ---------------------------------------------------------------- bounds
MaxNodes == 2
MaxVips == 3
MaxWorkers == 2
RobinNodes == 4
RobinCount == 3
MaxFaults == 1
MaxWaitSeconds == 6

Nodes == 1..MaxNodes
VIPs == 1..MaxVips

VARIABLES
    alias,        \* GCE: instance name -> alias IPs GetInstance reports
    pend,         \* GCE: instance name -> <<accepted update not yet visible>>, or <<>>
    workers,      \* cfg.Workers: number of Worker goroutines started
    pc,           \* main goroutine: where the control loop stands
    pass,         \* main goroutine: which pass is (or was last) running
    mainChanges,  \* main: changes
    ret,          \* value the last AllocateIps / ReduceIps call returned
    instances,    \* AllocateIps / ReduceIps: instances (the snapshot)
    target,       \* ReduceIps: target
    operations,   \* AllocateIps / ReduceIps: operations
    todo,         \* ExecuteParallel: operations the range loop has not reached
    inFlight,     \* ExecuteParallel: inFlight
    received,     \* ExecuteParallel: i, results taken from out
    changes,      \* ExecuteParallel: changes
    accepted,     \* history: update requests GCE accepted for this batch
    wpc,          \* Worker goroutine: position
    wop,          \* Worker: operation
    winst,        \* Execute: instance (the re-fetched alias IPs, fingerprint)
    wnew,         \* Execute: newState (a list)
    wres,         \* Execute: return value, waiting to be sent on out
    faults,       \* failed inventory calls and abandoned waits so far
    waitSeconds,  \* cfg.Gcp.WaitSeconds
    elapsedSeconds \* WaitForUpdate: elapsedSeconds, where its loop is followed

vars == <<alias, pend, workers, pc, pass, mainChanges, ret, instances, target,
          operations, todo, inFlight, received, changes, accepted,
          wpc, wop, winst, wnew, wres, faults, waitSeconds, elapsedSeconds>>

gceVars == <<alias, pend>>
execVars == <<todo, inFlight, received, changes, accepted>>
workerVars == <<wpc, wop, winst, wnew, wres>>
planVars == <<instances, target, operations>>
mainVars == <<mainChanges, ret>>
waitVars == <<waitSeconds, elapsedSeconds>>

\* Where the loop of WaitForUpdate is not followed poll by poll.
WaitNotFollowed ==
    /\ waitSeconds = 0
    /\ elapsedSeconds = [w \in 1..MaxWorkers |-> 0]

\* A call fails or a wait is abandoned: at most MaxFaults times in a run.
Fault == faults < MaxFaults /\ faults' = faults + 1

\* ------------------------------------------------------------- helpers
Empty == [n \in {} |-> {}]

\* The zero Operation: a Worker that holds no operation.
NoOp == [Type |-> "None", Instance |-> 0, Ips |-> <<>>]

Range(s) == {s[k] : k \in 1..Len(s)}

RECURSIVE Perms(_)
Perms(S) ==
    IF S = {} THEN {<<>>}
    ELSE UNION {{<<x>> \o p : p \in Perms(S \ {x})} : x \in S}

RECURSIVE Sum(_)
Sum(f) ==
    IF DOMAIN f = {} THEN 0
    ELSE LET n == CHOOSE x \in DOMAIN f : TRUE
         IN f[n] + Sum([m \in DOMAIN f \ {n} |-> f[m]])

Counts(inst) == [n \in DOMAIN inst |-> Cardinality(inst[n])]

\* GetInstancesFromMIG: the instances whose GetInstance succeeded.
GetInstancesFromMIG(fetched) == [n \in fetched |-> alias[n]]

\* len(*instance.AliasIps) + len(operations[name].Ips)
StagedLen(inst, ops, n) == Cardinality(inst[n]) + Len(ops[n].Ips)

\* (variant: the staged length of whichever instance the range meets first)
minAliasIpsFirst(inst, ops) ==
    IF DOMAIN inst = {} THEN -1
    ELSE StagedLen(inst, ops, CHOOSE n \in DOMAIN inst : TRUE)

minAliasIps(inst, ops) ==
    IF DOMAIN inst = {} THEN -1
    ELSE CHOOSE m \in {StagedLen(inst, ops, n) : n \in DOMAIN inst} :
             \A n \in DOMAIN inst : m <= StagedLen(inst, ops, n)

\* (variant: no address is ever marked as used)
GetSpareIpsAll(inst) == VIPs

GetSpareIps(inst) ==
    {ip \in VIPs : ~(\E n \in DOMAIN inst : ip \in inst[n])}

\* (variant: without the "min < 0 ||" test min stays at its initial -1)
minValueUnset(values) ==
    CHOOSE m \in {values[n] : n \in DOMAIN values} \cup {-1} :
        \A k \in {values[n] : n \in DOMAIN values} \cup {-1} : m <= k

minValue(values) ==
    IF DOMAIN values = {} THEN -1
    ELSE CHOOSE m \in {values[n] : n \in DOMAIN values} :
             \A n \in DOMAIN values : m <= values[n]

maxValue(values) ==
    IF DOMAIN values = {} THEN 0
    ELSE CHOOSE m \in {values[n] : n \in DOMAIN values} \cup {0} :
             \A n \in DOMAIN values : m >= values[n]

\* ------------------------------------------------ AllocateIps: planning
\* operations[name] = Operation{Type: Add, Instance: instance, Ips: []}
\* (variant: every operation holds the instance the range met last)
NewOperationsLastInstance(inst) ==
    [n \in DOMAIN inst |->
        [Type |-> "Add",
         Instance |-> CHOOSE m \in DOMAIN inst : \A k \in DOMAIN inst : m >= k,
         Ips |-> <<>>]]

NewOperations(inst) ==
    [n \in DOMAIN inst |-> [Type |-> "Add", Instance |-> n, Ips |-> <<>>]]

\* (variant: without the break every instance at the minimum gets the ip)
StageIpNoBreak(ops, cands, ip) ==
    {[n \in DOMAIN ops |->
        IF n \in cands THEN [ops[n] EXCEPT !.Ips = Append(@, ip)] ELSE ops[n]]}

\* The body of "for _, ip := range spare" for one ip whose candidates are the
\* instances at the minimum: the first one the map range meets gets the ip
\* (break); the map order is not fixed, so any candidate may be the one.
StageIp(ops, cands, ip) ==
    {[m \in DOMAIN ops |->
        IF m = n THEN [ops[m] EXCEPT !.Ips = Append(@, ip)] ELSE ops[m]] : n \in cands}

\* The loop over spare (a list, in the order GetSpareIps built it).
RECURSIVE Stage(_, _, _)
Stage(inst, ops, spare) ==
    IF spare = <<>> THEN {ops}
    ELSE LET min == minAliasIps(inst, ops)
             cands == {n \in DOMAIN inst : StagedLen(inst, ops, n) = min}
         IN UNION {Stage(inst, o, Tail(spare)) : o \in StageIp(ops, cands, Head(spare))}

\* Every operations map AllocateIps can build from a snapshot: GetSpareIps
\* ranges over a map, so spare comes in any order.
AllocatePlans(inst) ==
    UNION {Stage(inst, NewOperations(inst), s) : s \in Perms(GetSpareIps(inst))}

\* ------------------------------------------------- ReduceIps: planning
\* (variant: for max-min > 0)
RobinHoodContinuesWhileUneven(t) == maxValue(t) - minValue(t) > 0

\* for max-min > 1
RobinHoodContinues(t) == maxValue(t) - minValue(t) > 1

\* One iteration: decrement one instance at max, then increment one instance
\* whose value (after the decrement) equals min.
RobinHoodIteration(t) ==
    LET min == minValue(t)
        max == maxValue(t)
        dec == {[t EXCEPT ![n] = @ - 1] : n \in {m \in DOMAIN t : t[m] = max}}
    IN UNION {
         IF \E n \in DOMAIN d : d[n] = min
         THEN {[d EXCEPT ![n] = @ + 1] : n \in {m \in DOMAIN d : d[m] = min}}
         ELSE {d}
         : d \in dec}

\* ips[:reduction]: the first reduction entries of the instance's alias IP
\* list; the inventory fixes no order, so any reduction distinct entries.
\* (variant: ips[:reduction-1])
FirstIpsShort(ips, reduction) ==
    UNION {Perms(T) : T \in {X \in SUBSET ips : Cardinality(X) = reduction - 1}}

FirstIps(ips, reduction) ==
    UNION {Perms(T) : T \in {X \in SUBSET ips : Cardinality(X) = reduction}}

\* reduction := len(*instance.AliasIps) - target[name]
\* (variant: reduce every instance to the smallest target)
ReductionToMin(inst, t, n) == Cardinality(inst[n]) - minValue(t)

Reduction(inst, t, n) == Cardinality(inst[n]) - t[n]

\* Every operations map the "Generate operations" loop can build.
\* (variant: if reduction >= 0)
ReducePlansNotBelow(inst, t) ==
    LET over == {n \in DOMAIN inst : Reduction(inst, t, n) >= 0}
        cut(n) == FirstIps(inst[n], Reduction(inst, t, n))
    IN {[n \in over |-> [Type |-> "Remove", Instance |-> n, Ips |-> c[n]]] :
          c \in {f \in [over -> UNION {cut(n) : n \in over}] :
                    \A n \in over : f[n] \in cut(n)}}

ReducePlans(inst, t) ==
    LET over == {n \in DOMAIN inst : Reduction(inst, t, n) > 0}
        cut(n) == FirstIps(inst[n], Reduction(inst, t, n))
    IN {[n \in over |-> [Type |-> "Remove", Instance |-> n, Ips |-> c[n]]] :
          c \in {f \in [over -> UNION {cut(n) : n \in over}] :
                    \A n \in over : f[n] \in cut(n)}}

\* ------------------------------------------------------ initial states
\* Every pool address is on one instance or (owner 0) on none.
Assignments ==
    {[n \in Nodes |-> {ip \in VIPs : owner[ip] = n}] :
        owner \in [VIPs -> 0..MaxNodes]}

IdleWorkers ==
    /\ wpc = [w \in 1..MaxWorkers |-> "recv"]
    /\ wop = [w \in 1..MaxWorkers |-> NoOp]
    /\ winst = [w \in 1..MaxWorkers |-> {}]
    /\ wnew = [w \in 1..MaxWorkers |-> <<>>]
    /\ wres = [w \in 1..MaxWorkers |-> 0]

Init ==
    /\ alias \in Assignments
    /\ pend = [n \in Nodes |-> <<>>]
    /\ workers \in 1..MaxWorkers
    /\ WaitNotFollowed
    /\ pc = "AllocateIps"
    /\ pass = "alloc"
    /\ mainChanges = 0
    /\ ret = 0
    /\ instances = Empty
    /\ target = Empty
    /\ operations = Empty
    /\ todo = {}
    /\ inFlight = 0
    /\ received = 0
    /\ changes = 0
    /\ accepted = 0
    /\ IdleWorkers
    /\ faults = 0

\* ------------------------------------------------------ main goroutine
\* return <ret> from AllocateIps (changes := ...) or ReduceIps (changes += ...)
Return(p, r) ==
    /\ ret' = r
    /\ IF p = "alloc"
       THEN pc' = "ReduceIps" /\ mainChanges' = r
       ELSE pc' = "Changes" /\ mainChanges' = mainChanges + r

\* utils.ExecuteParallel(cfg.Gcp, operations) is entered: the range loop will
\* send every operation with len(operation.Ips) > 0.
EnterExecuteParallel(ops) ==
    /\ pc' = "ExecuteParallel"
    /\ todo' = {n \in DOMAIN ops : Len(ops[n].Ips) > 0}
    /\ inFlight' = 0
    /\ received' = 0
    /\ changes' = 0
    /\ accepted' = 0
    /\ UNCHANGED mainVars

\* AllocateIps up to the call of ExecuteParallel, with the listing succeeding
\* and GetInstance succeeding for the instances in fetched.
AllocateIps(fetched) ==
    /\ pc = "AllocateIps"
    /\ pass' = "alloc"
    /\ instances' = GetInstancesFromMIG(fetched)
    /\ target' = Empty
    /\ IF GetSpareIps(instances') = {} \/ DOMAIN instances' = {}
       THEN /\ operations' = Empty
            /\ Return("alloc", 0)
            /\ UNCHANGED execVars
       ELSE /\ operations' \in AllocatePlans(instances')
            /\ EnterExecuteParallel(operations')
    /\ IF fetched = Nodes THEN UNCHANGED faults ELSE Fault
    /\ UNCHANGED <<gceVars, workers, waitVars, workerVars>>

\* AllocateIps when ListInstancesInGroup fails: return 0.
\* (variant: the failed pass reports a change)
AllocateIpsListErrorReported ==
    /\ pc = "AllocateIps"
    /\ pass' = "alloc"
    /\ instances' = Empty
    /\ target' = Empty
    /\ operations' = Empty
    /\ Return("alloc", 1)
    /\ Fault
    /\ UNCHANGED <<gceVars, workers, waitVars, execVars, workerVars>>

AllocateIpsListError ==
    /\ pc = "AllocateIps"
    /\ pass' = "alloc"
    /\ instances' = Empty
    /\ target' = Empty
    /\ operations' = Empty
    /\ Return("alloc", 0)
    /\ Fault
    /\ UNCHANGED <<gceVars, workers, waitVars, execVars, workerVars>>

\* ReduceIps up to the Robin Hood loop.
ReduceIps(fetched) ==
    /\ pc = "ReduceIps"
    /\ pass' = "reduce"
    /\ instances' = GetInstancesFromMIG(fetched)
    /\ operations' = Empty
    /\ IF DOMAIN instances' = {}
       THEN /\ target' = Empty
            /\ Return("reduce", 0)
       ELSE /\ target' = Counts(instances')
            /\ pc' = "RobinHood"
            /\ UNCHANGED mainVars
    /\ IF fetched = Nodes THEN UNCHANGED faults ELSE Fault
    /\ UNCHANGED <<gceVars, workers, waitVars, execVars, workerVars>>

\* ReduceIps when ListInstancesInGroup fails: return 0.
ReduceIpsListError ==
    /\ pc = "ReduceIps"
    /\ pass' = "reduce"
    /\ instances' = Empty
    /\ target' = Empty
    /\ operations' = Empty
    /\ Return("reduce", 0)
    /\ Fault
    /\ UNCHANGED <<gceVars, workers, waitVars, execVars, workerVars>>

\* One iteration of the Robin Hood loop.
RobinHood ==
    /\ pc = "RobinHood"
    /\ RobinHoodContinues(target)
    /\ target' \in RobinHoodIteration(target)
    /\ UNCHANGED <<gceVars, workers, waitVars, faults, pc, pass, mainVars, instances,
                   operations, execVars, workerVars>>

\* The Robin Hood loop exits.
RobinHoodExit ==
    /\ pc = "RobinHood"
    /\ ~RobinHoodContinues(target)
    /\ pc' = "Operations"
    /\ UNCHANGED <<gceVars, workers, waitVars, faults, pass, mainVars, planVars,
                   execVars, workerVars>>

\* ReduceIps: "Generate operations", then ExecuteParallel is entered.
ReduceOperations ==
    /\ pc = "Operations"
    /\ operations' \in ReducePlans(instances, target)
    /\ EnterExecuteParallel(operations')
    /\ UNCHANGED <<gceVars, workers, waitVars, faults, pass, instances, target, workerVars>>

\* ----------------------------------------------------- ExecuteParallel
\* in <- operation, met by a Worker at operation := <-in (the channel is
\* unbuffered: the send needs a Worker that is receiving); inFlight++.
\* (variant: without inFlight++)
ExecuteParallelSendUncounted(n, w) ==
    /\ pc = "ExecuteParallel"
    /\ n \in todo
    /\ w \in 1..workers
    /\ wpc[w] = "recv"
    /\ todo' = todo \ {n}
    /\ wpc' = [wpc EXCEPT ![w] = "Execute"]
    /\ wop' = [wop EXCEPT ![w] = operations[n]]
    /\ UNCHANGED <<gceVars, workers, waitVars, faults, pc, pass, mainVars, planVars,
                   inFlight, received, changes, accepted, winst, wnew, wres>>

ExecuteParallelSend(n, w) ==
    /\ pc = "ExecuteParallel"
    /\ n \in todo
    /\ w \in 1..workers
    /\ wpc[w] = "recv"
    /\ todo' = todo \ {n}
    /\ inFlight' = inFlight + 1
    /\ wpc' = [wpc EXCEPT ![w] = "Execute"]
    /\ wop' = [wop EXCEPT ![w] = operations[n]]
    /\ UNCHANGED <<gceVars, workers, waitVars, faults, pc, pass, mainVars, planVars,
                   received, changes, accepted, winst, wnew, wres>>

\* changes += <-out, met by a Worker at out <- Execute(...); only reached
\* once the range loop has sent every operation.
\* (variant: <-out; changes++, every result counts as a change)
ExecuteParallelReceiveCounting(w) ==
    /\ pc = "ExecuteParallel"
    /\ todo = {}
    /\ received < inFlight
    /\ w \in 1..workers
    /\ wpc[w] = "send"
    /\ changes' = changes + 1
    /\ received' = received + 1
    /\ wpc' = [wpc EXCEPT ![w] = "recv"]
    /\ wop' = [wop EXCEPT ![w] = NoOp]
    /\ wres' = [wres EXCEPT ![w] = 0]
    /\ winst' = [winst EXCEPT ![w] = {}]
    /\ wnew' = [wnew EXCEPT ![w] = <<>>]
    /\ UNCHANGED <<gceVars, workers, waitVars, faults, pc, pass, mainVars, planVars,
                   todo, inFlight, accepted>>

ExecuteParallelReceive(w) ==
    /\ pc = "ExecuteParallel"
    /\ todo = {}
    /\ received < inFlight
    /\ w \in 1..workers
    /\ wpc[w] = "send"
    /\ changes' = changes + wres[w]
    /\ received' = received + 1
    /\ wpc' = [wpc EXCEPT ![w] = "recv"]
    /\ wop' = [wop EXCEPT ![w] = NoOp]
    /\ wres' = [wres EXCEPT ![w] = 0]
    /\ winst' = [winst EXCEPT ![w] = {}]
    /\ wnew' = [wnew EXCEPT ![w] = <<>>]
    /\ UNCHANGED <<gceVars, workers, waitVars, faults, pc, pass, mainVars, planVars,
                   todo, inFlight, accepted>>

\* return changes, back into AllocateIps / ReduceIps, which return it.
ExecuteParallelReturn ==
    /\ pc = "ExecuteParallel"
    /\ todo = {}
    /\ received = inFlight
    /\ Return(pass, changes)
    /\ UNCHANGED <<gceVars, workers, waitVars, faults, pass, planVars, execVars, workerVars>>

\* --------------------------------------------------------------- Worker
\* *instance.AliasIps: the alias IPs of the re-fetched instance, as a list.
RECURSIVE AliasIps(_)
AliasIps(S) ==
    IF S = {} THEN <<>>
    ELSE LET x == CHOOSE y \in S : \A z \in S : y <= z
         IN <<x>> \o AliasIps(S \ {x})

\* case Add: every ip of the operation that newState does not contain yet is
\* appended to it.
RECURSIVE AddIps(_, _)
\* (variant: without the slices.Contains test)
AddIpsNoContains(state, ips) == state \o ips

AddIps(state, ips) ==
    IF ips = <<>> THEN state
    ELSE AddIps(IF Head(ips) \in Range(state) THEN state
                ELSE Append(state, Head(ips)), Tail(ips))

\* case Remove: the alias IPs the operation does not contain, in their order.
RemoveIps(state, ips) == SelectSeq(state, LAMBDA ip : ip \notin Range(ips))

\* newState of Execute, from the re-fetched alias IPs and the operation.
NewState(cur, op) ==
    IF op.Type = "Add" THEN AddIps(AliasIps(cur), op.Ips)
    ELSE RemoveIps(AliasIps(cur), op.Ips)

\* if len(*instance.AliasIps) == len(newState): "No actual changes".
\* (variant: len(newState) <= len(*instance.AliasIps))
NoActualChangesIfNotLonger(cur, new) == Len(new) <= Len(AliasIps(cur))

NoActualChanges(cur, new) == Len(AliasIps(cur)) = Len(new)

\* Execute: GetInstance succeeds; newState; "No actual changes" returns 0.
Execute(w) ==
    /\ wpc[w] = "Execute"
    /\ LET cur == alias[wop[w].Instance]
           new == NewState(cur, wop[w])
       IN IF NoActualChanges(cur, new)
          THEN /\ wpc' = [wpc EXCEPT ![w] = "send"]
               /\ wres' = [wres EXCEPT ![w] = 0]
               /\ UNCHANGED <<winst, wnew>>
          ELSE /\ wpc' = [wpc EXCEPT ![w] = "UpdateAliasIPs"]
               /\ winst' = [winst EXCEPT ![w] = cur]
               /\ wnew' = [wnew EXCEPT ![w] = new]
               /\ UNCHANGED wres
    /\ UNCHANGED <<gceVars, workers, waitVars, faults, pc, pass, mainVars, planVars,
                   execVars, wop>>

\* Execute: GetInstance fails: return 0.
\* (variant: the Worker drops the operation and sends no result)
ExecuteGetErrorDropsResult(w) ==
    /\ wpc[w] = "Execute"
    /\ wpc' = [wpc EXCEPT ![w] = "recv"]
    /\ wop' = [wop EXCEPT ![w] = NoOp]
    /\ Fault
    /\ UNCHANGED <<gceVars, workers, waitVars, pc, pass, mainVars, planVars,
                   execVars, winst, wnew, wres>>

ExecuteGetError(w) ==
    /\ wpc[w] = "Execute"
    /\ wpc' = [wpc EXCEPT ![w] = "send"]
    /\ wres' = [wres EXCEPT ![w] = 0]
    /\ Fault
    /\ UNCHANGED <<gceVars, workers, waitVars, pc, pass, mainVars, planVars,
                   execVars, wop, winst, wnew>>

\* Fingerprint: instance.NetworkFingerprint, the fingerprint of the instance
\* Execute re-fetched; a fingerprint stands for the alias IPs it was read with.
\* (variant: the fingerprint is read again when the request is built)
FingerprintAtWrite(w) == alias[wop[w].Instance]

Fingerprint(w) == winst[w]

\* UpdateAliasIPs succeeds: GCE accepts the request, whose fingerprint is
\* that of the instance as re-fetched; the new alias IPs become visible later.
UpdateAliasIPs(w) ==
    /\ wpc[w] = "UpdateAliasIPs"
    /\ alias[wop[w].Instance] = Fingerprint(w)
    /\ pend' = [pend EXCEPT ![wop[w].Instance] = <<Range(wnew[w])>>]
    /\ wpc' = [wpc EXCEPT ![w] = "WaitForUpdate"]
    /\ accepted' = accepted + 1
    /\ UNCHANGED <<alias, workers, waitVars, faults, pc, pass, mainVars, planVars,
                   todo, inFlight, received, changes, wop, winst, wnew, wres>>

\* UpdateAliasIPs is rejected: the fingerprint sent is no longer that of the
\* instance; Execute returns 0.
UpdateAliasIPsConflict(w) ==
    /\ wpc[w] = "UpdateAliasIPs"
    /\ alias[wop[w].Instance] # Fingerprint(w)
    /\ wpc' = [wpc EXCEPT ![w] = "send"]
    /\ wres' = [wres EXCEPT ![w] = 0]
    /\ UNCHANGED <<gceVars, workers, waitVars, faults, pc, pass, mainVars, planVars,
                   execVars, wop, winst, wnew>>

\* UpdateAliasIPs fails for any other reason: Execute returns 0.
\* (variant: the error is only logged and Execute goes on to return 1)
UpdateAliasIPsErrorCounted(w) ==
    /\ wpc[w] = "UpdateAliasIPs"
    /\ wpc' = [wpc EXCEPT ![w] = "send"]
    /\ wres' = [wres EXCEPT ![w] = 1]
    /\ winst' = [winst EXCEPT ![w] = {}]
    /\ wnew' = [wnew EXCEPT ![w] = <<>>]
    /\ Fault
    /\ UNCHANGED <<gceVars, workers, waitVars, pc, pass, mainVars, planVars,
                   execVars, wop>>

\* (variant: the error is only logged and Execute goes on to WaitForUpdate)
UpdateAliasIPsErrorWaits(w) ==
    /\ wpc[w] = "UpdateAliasIPs"
    /\ wpc' = [wpc EXCEPT ![w] = "WaitForUpdate"]
    /\ Fault
    /\ UNCHANGED <<gceVars, workers, waitVars, pc, pass, mainVars, planVars,
                   execVars, wop, winst, wnew, wres>>

UpdateAliasIPsError(w) ==
    /\ wpc[w] = "UpdateAliasIPs"
    /\ wpc' = [wpc EXCEPT ![w] = "send"]
    /\ wres' = [wres EXCEPT ![w] = 0]
    /\ winst' = [winst EXCEPT ![w] = {}]
    /\ wnew' = [wnew EXCEPT ![w] = <<>>]
    /\ Fault
    /\ UNCHANGED <<gceVars, workers, waitVars, pc, pass, mainVars, planVars,
                   execVars, wop>>

\* WaitForUpdate: a poll sees len(newState) == len(*instance.AliasIps);
\* Execute returns 1.  (A poll that sees another length sleeps and polls
\* again: no change of state.)
WaitForUpdate(w) ==
    /\ wpc[w] = "WaitForUpdate"
    /\ Len(wnew[w]) = Cardinality(alias[wop[w].Instance])
    /\ wpc' = [wpc EXCEPT ![w] = "send"]
    /\ wres' = [wres EXCEPT ![w] = 1]
    /\ winst' = [winst EXCEPT ![w] = {}]
    /\ wnew' = [wnew EXCEPT ![w] = <<>>]
    /\ UNCHANGED <<gceVars, workers, waitVars, faults, pc, pass, mainVars, planVars,
                   execVars, wop>>

\* WaitForUpdate gives up: cfg.WaitSeconds have elapsed (none, if it is 0)
\* or a poll's GetInstance failed; Execute still returns 1.
\* (variant: a wait that gave up makes Execute return 0)
WaitForUpdateGiveUpFails(w) ==
    /\ wpc[w] = "WaitForUpdate"
    /\ wpc' = [wpc EXCEPT ![w] = "send"]
    /\ wres' = [wres EXCEPT ![w] = 0]
    /\ winst' = [winst EXCEPT ![w] = {}]
    /\ wnew' = [wnew EXCEPT ![w] = <<>>]
    /\ Fault
    /\ UNCHANGED <<gceVars, workers, waitVars, pc, pass, mainVars, planVars,
                   execVars, wop>>

WaitForUpdateGiveUp(w) ==
    /\ wpc[w] = "WaitForUpdate"
    /\ wpc' = [wpc EXCEPT ![w] = "send"]
    /\ wres' = [wres EXCEPT ![w] = 1]
    /\ winst' = [winst EXCEPT ![w] = {}]
    /\ wnew' = [wnew EXCEPT ![w] = <<>>]
    /\ Fault
    /\ UNCHANGED <<gceVars, workers, waitVars, pc, pass, mainVars, planVars,
                   execVars, wop>>

\* exponentialBackoff(elapsedSeconds), in seconds.
exponentialBackoff(elapsed) ==
    IF elapsed < 5 THEN 1
    ELSE IF elapsed < 15 THEN 2
    ELSE IF elapsed < 60 THEN 5
    ELSE 10

\* WaitForUpdate followed poll by poll.  One iteration of its loop in which
\* GetInstance succeeds: return if the lengths match, else sleep and set
\* elapsedSeconds to the whole seconds since start (the sleep lasts the
\* backoff or longer: late is what the poll and the scheduler add).
\* (variant: elapsedSeconds is not computed again after the sleep)
WaitPollElapsedStale(w) ==
    /\ wpc[w] = "WaitForUpdate"
    /\ elapsedSeconds[w] < waitSeconds
    /\ IF Len(wnew[w]) = Cardinality(alias[wop[w].Instance])
       THEN /\ wpc' = [wpc EXCEPT ![w] = "send"]
            /\ wres' = [wres EXCEPT ![w] = 1]
       ELSE UNCHANGED <<wpc, wres>>
    /\ UNCHANGED <<gceVars, workers, waitVars, faults, pc, pass, mainVars,
                   planVars, execVars, wop, winst, wnew>>

WaitPoll(w) ==
    /\ wpc[w] = "WaitForUpdate"
    /\ elapsedSeconds[w] < waitSeconds
    /\ IF Len(wnew[w]) = Cardinality(alias[wop[w].Instance])
       THEN /\ wpc' = [wpc EXCEPT ![w] = "send"]
            /\ wres' = [wres EXCEPT ![w] = 1]
            /\ UNCHANGED elapsedSeconds
       ELSE /\ \E late \in 0..1 :
                 elapsedSeconds' =
                     [elapsedSeconds EXCEPT ![w] = @ + exponentialBackoff(@) + late]
            /\ UNCHANGED <<wpc, wres>>
    /\ UNCHANGED <<gceVars, workers, waitSeconds, faults, pc, pass, mainVars,
                   planVars, execVars, wop, winst, wnew>>

\* One iteration in which GetInstance fails: "Ignoring", return.
WaitPollError(w) ==
    /\ wpc[w] = "WaitForUpdate"
    /\ elapsedSeconds[w] < waitSeconds
    /\ wpc' = [wpc EXCEPT ![w] = "send"]
    /\ wres' = [wres EXCEPT ![w] = 1]
    /\ Fault
    /\ UNCHANGED <<gceVars, workers, waitVars, pc, pass, mainVars,
                   planVars, execVars, wop, winst, wnew>>

\* The loop condition fails: "Waited ... seconds ..., then gave up."
WaitTimeout(w) ==
    /\ wpc[w] = "WaitForUpdate"
    /\ elapsedSeconds[w] >= waitSeconds
    /\ wpc' = [wpc EXCEPT ![w] = "send"]
    /\ wres' = [wres EXCEPT ![w] = 1]
    /\ UNCHANGED <<gceVars, workers, waitVars, faults, pc, pass, mainVars,
                   planVars, execVars, wop, winst, wnew>>

\* ------------------------------------------------------------------ GCE
\* An accepted update becomes visible to GetInstance.
GceApply(n) ==
    /\ pend[n] # <<>>
    /\ alias' = [alias EXCEPT ![n] = Head(pend[n])]
    /\ pend' = [pend EXCEPT ![n] = Tail(@)]
    /\ UNCHANGED <<workers, waitVars, faults, pc, pass, mainVars, planVars, execVars,
                   workerVars>>

\* Another client of GCE updates the alias IPs of an instance.  GCE updates
\* an instance one request at a time: not while an accepted update is still
\* to become visible.
GceExternalUpdate(n, ips) ==
    /\ pend[n] = <<>>
    /\ ips # alias[n]
    /\ alias' = [alias EXCEPT ![n] = ips]
    /\ UNCHANGED <<pend, workers, waitVars, faults, pc, pass, mainVars, planVars,
                   execVars, workerVars>>

\* ------------------------------------------------------------ main loop
\* if changes > 0 { PrintInstances(cfg) }: the next cycle starts at once.
\* (variant: if changes >= 0)
PrintInstancesAlways ==
    /\ pc = "Changes"
    /\ mainChanges >= 0
    /\ pc' = "AllocateIps"
    /\ instances' = Empty
    /\ target' = Empty
    /\ operations' = Empty
    /\ UNCHANGED <<gceVars, workers, waitVars, faults, pass, mainVars, execVars, workerVars>>

PrintInstances ==
    /\ pc = "Changes"
    /\ mainChanges > 0
    /\ pc' = "AllocateIps"
    /\ instances' = Empty
    /\ target' = Empty
    /\ operations' = Empty
    /\ UNCHANGED <<gceVars, workers, waitVars, faults, pass, mainVars, execVars, workerVars>>

\* else { time.Sleep(...) }
Sleep ==
    /\ pc = "Changes"
    /\ mainChanges <= 0
    /\ pc' = "Sleep"
    /\ instances' = Empty
    /\ target' = Empty
    /\ operations' = Empty
    /\ UNCHANGED <<gceVars, workers, waitVars, faults, pass, mainVars, execVars, workerVars>>

\* time.Sleep returns.
Wake ==
    /\ pc = "Sleep"
    /\ pc' = "AllocateIps"
    /\ UNCHANGED <<gceVars, workers, waitVars, faults, pass, mainVars, planVars, execVars,
                   workerVars>>

\* ------------------------------------------------------- specifications
\* Every step the program takes when no inventory call fails and every
\* convergence wait lasts until the update is visible.
NextReliable ==
    \/ AllocateIps(Nodes)
    \/ ReduceIps(Nodes)
    \/ RobinHood
    \/ RobinHoodExit
    \/ ReduceOperations
    \/ \E n \in Nodes, w \in 1..MaxWorkers : ExecuteParallelSend(n, w)
    \/ \E w \in 1..MaxWorkers : ExecuteParallelReceive(w)
    \/ ExecuteParallelReturn
    \/ \E w \in 1..MaxWorkers : Execute(w)
    \/ \E w \in 1..MaxWorkers : UpdateAliasIPs(w)
    \/ \E w \in 1..MaxWorkers : WaitForUpdate(w)
    \/ \E n \in Nodes : GceApply(n)
    \/ PrintInstances
    \/ Sleep
    \/ Wake

\* The inventory calls may fail and a convergence wait may give up.
NextFailing ==
    \/ \E fetched \in SUBSET Nodes : fetched # Nodes /\ AllocateIps(fetched)
    \/ \E fetched \in SUBSET Nodes : fetched # Nodes /\ ReduceIps(fetched)
    \/ AllocateIpsListError
    \/ ReduceIpsListError
    \/ \E w \in 1..MaxWorkers : ExecuteGetError(w)
    \/ \E w \in 1..MaxWorkers : UpdateAliasIPsConflict(w)
    \/ \E w \in 1..MaxWorkers : UpdateAliasIPsError(w)
    \/ \E w \in 1..MaxWorkers : WaitForUpdateGiveUp(w)

Next == NextReliable \/ NextFailing

Spec == Init /\ [][Next]_vars

SpecReliable == Init /\ [][NextReliable]_vars

\* Nothing fails, but a convergence wait may give up before the update it
\* waits for is visible.
NextWaitGivesUp ==
    \/ NextReliable
    \/ \E w \in 1..MaxWorkers : WaitForUpdateGiveUp(w)

SpecWaitGivesUp == Init /\ [][NextWaitGivesUp]_vars

\* Nothing fails but the listing of the group's instances at the start of a
\* pass.
NextListFails ==
    \/ NextReliable
    \/ AllocateIpsListError
    \/ ReduceIpsListError

SpecListFails == Init /\ [][NextListFails]_vars

\* Nothing fails but the update request of an operation.
NextWriteFails ==
    \/ NextReliable
    \/ \E w \in 1..MaxWorkers : UpdateAliasIPsError(w)

SpecWriteFails == Init /\ [][NextWriteFails]_vars

\* Nothing fails but the re-fetch of the instance in Execute.
NextGetFails ==
    \/ NextReliable
    \/ \E w \in 1..MaxWorkers : ExecuteGetError(w)

SpecGetFails == Init /\ [][NextGetFails]_vars

\* The goroutines are scheduled fairly and GCE completes what it accepted.
MainStep ==
    \/ AllocateIps(Nodes)
    \/ ReduceIps(Nodes)
    \/ RobinHood
    \/ RobinHoodExit
    \/ ReduceOperations
    \/ \E n \in Nodes, w \in 1..MaxWorkers : ExecuteParallelSend(n, w)
    \/ \E w \in 1..MaxWorkers : ExecuteParallelReceive(w)
    \/ ExecuteParallelReturn
    \/ PrintInstances
    \/ Sleep
    \/ Wake

WorkerStep(w) == Execute(w) \/ UpdateAliasIPs(w) \/ WaitForUpdate(w)

FairSpecReliable ==
    /\ SpecReliable
    /\ WF_vars(MainStep)
    /\ \A w \in 1..MaxWorkers : WF_vars(WorkerStep(w))
    /\ \A n \in Nodes : WF_vars(GceApply(n))

\* The Robin Hood loop of ReduceIps on any map of counts: the snapshot holds
\* k instances with any numbers of alias IPs, the loop is about to start.
RobinInit ==
    /\ \E k \in 1..RobinNodes :
         \E c \in [1..k -> 0..RobinCount] :
            /\ instances = [n \in 1..k |-> 1..c[n]]
            /\ target = c
    /\ alias = [n \in Nodes |-> {}]
    /\ pend = [n \in Nodes |-> <<>>]
    /\ workers = 1
    /\ WaitNotFollowed
    /\ pc = "RobinHood"
    /\ pass = "reduce"
    /\ mainChanges = 0
    /\ ret = 0
    /\ operations = Empty
    /\ todo = {}
    /\ inFlight = 0
    /\ received = 0
    /\ changes = 0
    /\ accepted = 0
    /\ IdleWorkers
    /\ faults = 0

RobinNext == RobinHood \/ RobinHoodExit

RobinSpec == RobinInit /\ [][RobinNext]_vars

FairRobinSpec == RobinSpec /\ WF_vars(RobinNext)

\* The loop "for _, ip := range spare" of AllocateIps, one ip at a time, on
\* any snapshot with a spare address: AllocateIps has built the empty Add
\* operations and spare.
SpareLeft ==
    GetSpareIps(instances)
        \ UNION {Range(operations[n].Ips) : n \in DOMAIN operations}

StageInit ==
    /\ alias \in Assignments
    /\ \E fetched \in SUBSET Nodes \ {{}} :
          instances = GetInstancesFromMIG(fetched)
    /\ GetSpareIps(instances) # {}
    /\ operations = NewOperations(instances)
    /\ target = Empty
    /\ pend = [n \in Nodes |-> <<>>]
    /\ workers = 1
    /\ WaitNotFollowed
    /\ pc = "Stage"
    /\ pass = "alloc"
    /\ mainChanges = 0
    /\ ret = 0
    /\ todo = {}
    /\ inFlight = 0
    /\ received = 0
    /\ changes = 0
    /\ accepted = 0
    /\ IdleWorkers
    /\ faults = 0

\* The body of the loop for the next ip of spare.
StageLoop ==
    /\ pc = "Stage"
    /\ \E ip \in SpareLeft :
          LET min == minAliasIps(instances, operations)
              cands == {n \in DOMAIN instances :
                           StagedLen(instances, operations, n) = min}
          IN operations' \in StageIp(operations, cands, ip)
    /\ UNCHANGED <<gceVars, workers, waitVars, faults, pc, pass, mainVars, instances,
                   target, execVars, workerVars>>

\* spare is exhausted: return utils.ExecuteParallel(cfg.Gcp, operations).
StageLoopExit ==
    /\ pc = "Stage"
    /\ SpareLeft = {}
    /\ EnterExecuteParallel(operations)
    /\ UNCHANGED <<gceVars, workers, waitVars, faults, pass, planVars, workerVars>>

StageNext == StageLoop \/ StageLoopExit

\* WaitForUpdate with any cfg.Gcp.WaitSeconds, called by Execute for an
\* update GCE has just accepted, which may become visible at any time or
\* not at all.
WaitInit ==
    /\ \E n \in Nodes, t \in {"Add", "Remove"}, ips \in SUBSET VIPs \ {{}},
          cur \in SUBSET VIPs :
           LET op == [Type |-> t, Instance |-> n, Ips |-> AliasIps(ips)]
           IN /\ ~NoActualChanges(cur, NewState(cur, op))
              /\ alias = [m \in Nodes |-> IF m = n THEN cur ELSE {}]
              /\ pend = [m \in Nodes |->
                            IF m = n THEN <<Range(NewState(cur, op))>> ELSE <<>>]
              /\ instances = [m \in {n} |-> IF t = "Add" THEN {} ELSE ips]
              /\ operations = [m \in {n} |-> op]
              /\ pass = IF t = "Add" THEN "alloc" ELSE "reduce"
              /\ target = IF t = "Add" THEN Empty ELSE [m \in {n} |-> 0]
              /\ wop = [w \in 1..MaxWorkers |-> IF w = 1 THEN op ELSE NoOp]
              /\ winst = [w \in 1..MaxWorkers |-> IF w = 1 THEN cur ELSE {}]
              /\ wnew = [w \in 1..MaxWorkers |->
                            IF w = 1 THEN NewState(cur, op) ELSE <<>>]
    /\ waitSeconds \in 0..MaxWaitSeconds
    /\ elapsedSeconds = [w \in 1..MaxWorkers |-> 0]
    /\ workers = 1
    /\ pc = "ExecuteParallel"
    /\ mainChanges = 0
    /\ ret = 0
    /\ todo = {}
    /\ inFlight = 1
    /\ received = 0
    /\ changes = 0
    /\ accepted = 1
    /\ wpc = [w \in 1..MaxWorkers |-> IF w = 1 THEN "WaitForUpdate" ELSE "recv"]
    /\ wres = [w \in 1..MaxWorkers |-> 0]
    /\ faults = 0

WaitStep ==
    \/ \E w \in 1..MaxWorkers : WaitPoll(w)
    \/ \E w \in 1..MaxWorkers : WaitPollError(w)
    \/ \E w \in 1..MaxWorkers : WaitTimeout(w)

WaitNext ==
    \/ WaitStep
    \/ \E n \in Nodes : GceApply(n)

WaitSpec == WaitInit /\ [][WaitNext]_vars

\* The Worker goroutine is scheduled, its fetches answer and its sleeps
\* end; nothing obliges a fetch to fail.
FairWaitSpec ==
    WaitSpec /\ WF_vars(\E w \in 1..MaxWorkers : WaitPoll(w) \/ WaitTimeout(w))

StageSpec == StageInit /\ [][StageNext]_vars

\* Execute on any operation against any state of its instance: one Worker
\* has received the only operation of a batch (an Add of AllocateIps or a
\* Remove of ReduceIps, built from a snapshot that may be out of date) and is
\* about to call Execute; ExecuteParallel waits for the result.  Any call
\* may fail, the wait may give up, and another client may update the
\* instance of the operation at any time.
ExecuteInit ==
    /\ \E n \in Nodes, t \in {"Add", "Remove"}, ips \in SUBSET VIPs \ {{}},
          cur \in SUBSET VIPs :
           /\ alias = [m \in Nodes |-> IF m = n THEN cur ELSE {}]
           /\ instances = [m \in {n} |-> IF t = "Add" THEN {} ELSE ips]
           /\ operations =
                 [m \in {n} |-> [Type |-> t, Instance |-> n, Ips |-> AliasIps(ips)]]
           /\ pass = IF t = "Add" THEN "alloc" ELSE "reduce"
           /\ target = IF t = "Add" THEN Empty ELSE [m \in {n} |-> 0]
           /\ wop = [w \in 1..MaxWorkers |-> IF w = 1 THEN operations[n] ELSE NoOp]
    /\ pend = [m \in Nodes |-> <<>>]
    /\ workers = 1
    /\ WaitNotFollowed
    /\ pc = "ExecuteParallel"
    /\ mainChanges = 0
    /\ ret = 0
    /\ todo = {}
    /\ inFlight = 1
    /\ received = 0
    /\ changes = 0
    /\ accepted = 0
    /\ wpc = [w \in 1..MaxWorkers |-> IF w = 1 THEN "Execute" ELSE "recv"]
    /\ winst = [w \in 1..MaxWorkers |-> {}]
    /\ wnew = [w \in 1..MaxWorkers |-> <<>>]
    /\ wres = [w \in 1..MaxWorkers |-> 0]
    /\ faults = 0

ExecuteNext ==
    \/ \E w \in 1..MaxWorkers : Execute(w)
    \/ \E w \in 1..MaxWorkers : ExecuteGetError(w)
    \/ \E w \in 1..MaxWorkers : UpdateAliasIPs(w)
    \/ \E w \in 1..MaxWorkers : UpdateAliasIPsConflict(w)
    \/ \E w \in 1..MaxWorkers : UpdateAliasIPsError(w)
    \/ \E w \in 1..MaxWorkers : WaitForUpdate(w)
    \/ \E w \in 1..MaxWorkers : WaitForUpdateGiveUp(w)
    \/ \E n \in Nodes : GceApply(n)
    \/ \E n \in DOMAIN operations, ips \in SUBSET VIPs : GceExternalUpdate(n, ips)
    \/ \E w \in 1..MaxWorkers : ExecuteParallelReceive(w)
    \/ ExecuteParallelReturn

ExecuteSpec == ExecuteInit /\ [][ExecuteNext]_vars

\* ------------------------------------------------------------ properties
SetMax(S) == CHOOSE m \in S : \A x \in S : x <= m
SetMin(S) == CHOOSE m \in S : \A x \in S : m <= x
Values(f) == {f[n] : n \in DOMAIN f}
Spread(f) == IF DOMAIN f = {} THEN 0 ELSE SetMax(Values(f)) - SetMin(Values(f))
Held == Counts(alias)
Unassigned == {ip \in VIPs : \A n \in Nodes : ip \notin alias[n]}
Submittable == {n \in DOMAIN operations : Len(operations[n].Ips) > 0}
WorkersIdle == \A w \in 1..MaxWorkers : wpc[w] = "recv"
NothingPending == \A n \in Nodes : pend[n] = <<>>

\* C1: ExecuteParallel never blocks for good: while it runs some step of the
\* program is possible, and when its collect loop is over it has sent every
\* operation with a non-empty address list and received as many results.
C1_ExecuteParallelReturns ==
    /\ pc = "ExecuteParallel" => ENABLED NextReliable
    /\ (pc = "ExecuteParallel" /\ todo = {} /\ received = inFlight)
          => inFlight = Cardinality(Submittable)

\* C2: with every read and write succeeding and every wait lasting until the
\* update is visible, no address is ever on two instances.
C2_AtMostOneNode ==
    \A n, m \in Nodes : n # m => alias[n] \cap alias[m] = {}

\* C2 witness: a cycle that moved addresses has ended with all of them held.
C2_Witness ==
    /\ pc = "Changes"
    /\ mainChanges > 1
    /\ Unassigned = {}

\* C3: the control loop eventually reaches, and then stays in, a state where
\* every pool address is on some instance and the counts differ by at most 1.
Balanced == Unassigned = {} /\ Spread(Held) <= 1

C3_EventuallyBalanced == <>[]Balanced

\* C4: when the Robin Hood loop exits, the targets differ by at most 1 and
\* add up to the observed counts.
C4_RobinHoodExit ==
    pc = "Operations" =>
        /\ Spread(target) <= 1
        /\ Sum(target) = Sum(Counts(instances))

\* C4 witness: the loop has exited on the counts [3,3,3,0].
C4_Witness ==
    /\ pc = "Operations"
    /\ DOMAIN instances = 1..4
    /\ Counts(instances) = <<3, 3, 3, 0>>
    /\ target # Counts(instances)

\* C5: the Add operations one AllocateIps pass builds have pairwise disjoint,
\* duplicate-free address lists.
C5_StagedOnce ==
    (pass = "alloc" /\ pc \in {"ExecuteParallel", "ReduceIps"}) =>
        /\ \A n \in DOMAIN operations :
              Cardinality(Range(operations[n].Ips)) = Len(operations[n].Ips)
        /\ \A n, m \in DOMAIN operations :
              n # m => Range(operations[n].Ips) \cap Range(operations[m].Ips) = {}

\* C5 witness: a pass has staged addresses for two instances.
C5_Witness ==
    /\ pass = "alloc"
    /\ pc = "ExecuteParallel"
    /\ Cardinality(Submittable) >= 2
    /\ \E n \in Submittable : Len(operations[n].Ips) >= 2

\* C6: an AllocateIps pass that starts with a spare address returns, and no
\* address is spare then.
C6_AllocateLeavesNoSpare ==
    (pc = "AllocateIps" /\ Unassigned # {})
        ~> (pc = "ReduceIps" /\ pass = "alloc" /\ Unassigned = {})

\* C7 as stated: after a ReduceIps pass whose writes all succeeded and
\* converged, the counts held differ by at most 1.
C7_SpreadAfterReduce ==
    (pc = "Changes" /\ pass = "reduce") => Spread(Held) <= 1

\* C7 amended: after such a pass no instance holds more than its target, so
\* no count is more than 1 above the smallest target.
C7_WithinTarget ==
    (pc = "Changes" /\ pass = "reduce") =>
        /\ \A n \in DOMAIN target : Held[n] <= target[n]
        /\ \A n \in DOMAIN target : Held[n] <= SetMin(Values(target)) + 1

\* C7 witness: a pass has removed addresses and the counts still differ by 2.
C7_Witness ==
    /\ pc = "Changes"
    /\ pass = "reduce"
    /\ ret > 0
    /\ Spread(Held) > 1

\* C8: the counts held never add up to more than the size of the pool.
C8_SumWithinPool == Sum(Held) <= Cardinality(VIPs)

\* C9: on a snapshot that is already balanced ReduceIps keeps the targets at
\* the observed counts, builds no operation, hands nothing to a Worker,
\* issues no write and returns 0.
C9_ReduceIdempotent ==
    (/\ pass = "reduce"
     /\ pc \in {"RobinHood", "Operations", "ExecuteParallel", "Changes"}
     /\ Spread(Counts(instances)) <= 1) =>
        /\ target = Counts(instances)
        /\ pc \in {"ExecuteParallel", "Changes"} =>
              /\ operations = Empty
              /\ inFlight = 0
              /\ WorkersIdle
              /\ NothingPending
        /\ pc = "Changes" => ret = 0

\* C9 witness: ReduceIps has returned from a balanced snapshot of instances
\* that hold addresses.
C9_Witness ==
    /\ pass = "reduce"
    /\ pc = "Changes"
    /\ Spread(Counts(instances)) = 1
    /\ ret = 0

\* C10: every iteration of the Robin Hood loop takes 1 from one instance at
\* the maximum and gives 1 to one other instance at the minimum, and the
\* loop exits.
RobinHoodStepShape ==
    (pc = "RobinHood" /\ pc' = "RobinHood") =>
        \E hi, lo \in DOMAIN target :
            /\ hi # lo
            /\ target[hi] = SetMax(Values(target))
            /\ target[lo] = SetMin(Values(target))
            /\ target' = [target EXCEPT ![hi] = @ - 1, ![lo] = @ + 1]

C10_RobinHoodTerminates ==
    /\ [][RobinHoodStepShape]_vars
    /\ <>(pc = "Operations")

\* C10 witness: the loop has exited after more than one iteration.
C10_Witness ==
    /\ pc = "Operations"
    /\ \E n \in DOMAIN target : target[n] >= Cardinality(instances[n]) + 2

\* C11: an AllocateIps pass whose snapshot lacks an instance (its GetInstance
\* failed) stages none of the addresses that instance holds for another
\* instance.
C11_SkippedNodeKeepsAddresses ==
    (pass = "alloc" /\ pc = "ExecuteParallel" /\ NothingPending) =>
        \A n \in DOMAIN operations : \A m \in Nodes \ DOMAIN instances :
            Range(operations[n].Ips) \cap alias[m] = {}

\* C12: after a convergence wait has given up, no pass stages for an instance
\* an address that an accepted update is about to put on another instance,
\* and once every accepted update is visible no address is on two instances.
C12_GiveUpKeepsOneNode ==
    /\ (pass = "alloc" /\ pc = "ExecuteParallel") =>
          \A n \in DOMAIN operations : \A m \in Nodes \ {n} :
              pend[m] # <<>> => Range(operations[n].Ips) \cap Head(pend[m]) = {}
    /\ NothingPending => \A n, m \in Nodes : n # m => alias[n] \cap alias[m] = {}

\* C13: the results of a batch add up to the number of its operations whose
\* update GCE accepted: an operation counts 1 once its update is accepted
\* and 0 otherwise (no change to make, failed re-fetch, failed update), and
\* ExecuteParallel, hence the pass, returns that number.
C13_ChangesCountAccepted ==
    /\ \A w \in 1..MaxWorkers : wres[w] \in {0, 1}
    /\ pc = "ExecuteParallel" =>
          accepted = changes
                     + Cardinality({w \in 1..MaxWorkers :
                                       wpc[w] = "send" /\ wres[w] = 1})
                     + Cardinality({w \in 1..MaxWorkers : wpc[w] = "WaitForUpdate"})
    /\ (pc \in {"ReduceIps", "Changes"} /\ operations # Empty) =>
          ret = changes /\ changes = accepted

\* C13 witness: the pass has returned 0 for a batch whose one operation met a
\* failed call.
C13_Witness ==
    /\ pc \in {"ReduceIps", "Changes"}
    /\ Cardinality(Submittable) = 1
    /\ faults = 1
    /\ accepted = 0
    /\ ret = 0

CycleShape ==
    /\ (pc = "AllocateIps" /\ pc' # pc) =>
          /\ pc' \in {"ExecuteParallel", "ReduceIps"}
          /\ pass' = "alloc"
          /\ \A n \in DOMAIN instances' : instances'[n] = alias[n]
    /\ (pc = "ReduceIps" /\ pc' # pc) =>
          /\ pc' \in {"RobinHood", "Changes"}
          /\ pass = "alloc" /\ pass' = "reduce"
          /\ \A n \in DOMAIN instances' : instances'[n] = alias[n]
    /\ (pc = "RobinHood" /\ pc' # pc) => pc' = "Operations"
    /\ (pc = "Operations" /\ pc' # pc) => pc' = "ExecuteParallel"
    /\ (pc = "ExecuteParallel" /\ pc' # pc) =>
          pc' = IF pass = "alloc" THEN "ReduceIps" ELSE "Changes"
    /\ (pc' = "ReduceIps" /\ pc # pc') => mainChanges' = ret'
    /\ (pc' = "Changes" /\ pc # pc') => mainChanges' = mainChanges + ret'
    /\ (pc = "Changes" /\ pc' # pc) =>
          pc' = IF mainChanges = 0 THEN "Sleep" ELSE "AllocateIps"
    /\ (pc = "Sleep" /\ pc' # pc) => pc' = "AllocateIps"

C15_CyclesForever ==
    /\ [][CycleShape]_vars
    /\ []<>(pc = "AllocateIps")

\* C16: a pass whose listing of the instances fails builds no operation,
\* hands nothing to a Worker, leaves the alias IPs of every instance and the
\* updates in progress as they are and returns 0; the loop goes on to the
\* next pass, and the failed pass is run again when the loop comes back to it.
ListFailed ==
    /\ pc \in {"AllocateIps", "ReduceIps"}
    /\ pc' # pc
    /\ instances' = Empty

ListFailedStep ==
    ListFailed =>
        /\ operations' = Empty
        /\ ret' = 0
        /\ pc' = IF pc = "AllocateIps" THEN "ReduceIps" ELSE "Changes"
        /\ mainChanges' = IF pc = "AllocateIps" THEN 0 ELSE mainChanges
        /\ UNCHANGED <<gceVars, execVars, workerVars>>

C16_ListFailureAbortsPass ==
    /\ [][ListFailedStep]_vars
    /\ [](pc = "AllocateIps" => ENABLED AllocateIps(Nodes))
    /\ [](pc = "ReduceIps" => ENABLED ReduceIps(Nodes))

\* C16 witness: the listing failed in AllocateIps, which left a spare address
\* where it was and returned 0.
C16_Witness ==
    /\ pc = "ReduceIps"
    /\ instances = Empty
    /\ faults = 1
    /\ Unassigned # {}
    /\ ret = 0

\* C17: when the update request of an operation fails, Execute returns 0
\* without waiting and GCE is as it was; every pass plans from the alias IPs
\* as they are when it starts, so what the failed operation would have done
\* is planned again: AllocateIps stages every address that is on no instance,
\* ReduceIps removes from every instance what it holds above its target.
WriteFailedStep ==
    \A w \in 1..MaxWorkers :
        (wpc[w] = "UpdateAliasIPs" /\ wpc'[w] # wpc[w] /\ accepted' = accepted) =>
            /\ wpc'[w] = "send"
            /\ wres'[w] = 0
            /\ UNCHANGED gceVars

PlannedAgainStep ==
    /\ (pc = "AllocateIps" /\ pc' = "ExecuteParallel") =>
          Unassigned = UNION {Range(operations'[n].Ips) : n \in DOMAIN operations'}
    /\ (pc = "AllocateIps" /\ pc' = "ReduceIps") => Unassigned = {}
    /\ (pc = "Operations" /\ pc' = "ExecuteParallel") =>
          \A n \in Nodes :
              Held[n] > target[n] =>
                  /\ n \in DOMAIN operations'
                  /\ Len(operations'[n].Ips) = Held[n] - target[n]
                  /\ Range(operations'[n].Ips) \subseteq alias[n]

C17_WriteFailureCountsZero ==
    /\ [][WriteFailedStep]_vars
    /\ [][PlannedAgainStep]_vars

\* C17 witness: after the one failed update request of the run, a later
\* AllocateIps pass has staged an address again and is about to send it.
C17_Witness ==
    /\ faults = 1
    /\ pass = "alloc"
    /\ pc = "ExecuteParallel"
    /\ inFlight = 0
    /\ WorkersIdle
    /\ Submittable # {}

\* C18: when WaitForUpdate returns without having seen an instance with as
\* many alias IPs as newState, Execute returns 1 all the same, and that 1 is
\* what ExecuteParallel and the pass get: they see no error.
GaveUpStep ==
    \A w \in 1..MaxWorkers :
        (/\ wpc[w] = "WaitForUpdate"
         /\ wpc'[w] # wpc[w]
         /\ Len(wnew[w]) # Cardinality(alias[wop[w].Instance])) =>
            /\ wpc'[w] = "send"
            /\ wres'[w] = 1
            /\ UNCHANGED gceVars

C18_GiveUpCountsOne ==
    /\ [][GaveUpStep]_vars
    /\ [](\A w \in 1..MaxWorkers :
             (wpc[w] = "send" /\ pend[wop[w].Instance] # <<>>) => wres[w] = 1)
    /\ []((pc \in {"ReduceIps", "Changes"} /\ ~NothingPending) => ret = 1)

\* C18 witness: the pass has returned 1 while the update GCE accepted for its
\* operation is still not visible.
C18_Witness ==
    /\ pc \in {"ReduceIps", "Changes"}
    /\ ret = 1
    /\ faults = 1
    /\ \E n \in DOMAIN operations :
          /\ pend[n] # <<>>
          /\ Cardinality(Head(pend[n])) # Cardinality(alias[n])

\* C19: the update request carries the fingerprint of the instance as Execute
\* re-fetched it, the one newState was computed from: GCE does not accept
\* the request when the alias IPs are no longer those, the rejected request
\* writes nothing, and an accepted update replaces exactly the alias IPs it
\* was computed from.
C19_NoLostUpdate ==
    \A w \in 1..MaxWorkers :
        LET n == wop[w].Instance
        IN /\ (wpc[w] = "UpdateAliasIPs" /\ alias[n] # winst[w]) =>
                 /\ ~ENABLED UpdateAliasIPs(w)
                 /\ ENABLED UpdateAliasIPsConflict(w)
           /\ (wpc[w] = "WaitForUpdate" /\ pend[n] # <<>>) =>
                 /\ alias[n] = winst[w]
                 /\ Head(pend[n]) = Range(NewState(alias[n], wop[w]))
           /\ (wpc[w] = "send" /\ Len(wnew[w]) # Cardinality(winst[w])) =>
                 /\ wres[w] = 0
                 /\ pend[n] = <<>>
                 /\ accepted = 0

\* C19 witness: another client changed the instance after Execute re-fetched
\* it, and the update request was rejected.
C19_Witness ==
    /\ wpc[1] = "send"
    /\ wres[1] = 0
    /\ Len(wnew[1]) # Cardinality(winst[1])
    /\ alias[wop[1].Instance] # winst[1]
    /\ faults = 0

\* C20: newState is computed from the alias IPs Execute re-fetched: they and
\* the operation's addresses for an Add, they without the operation's
\* addresses for a Remove, every address once; Execute returns without a
\* request only when that is what the instance has already; and the request
\* GCE accepts puts exactly newState in the place of the alias IPs.
Desired(cur, op) ==
    IF op.Type = "Add" THEN cur \cup Range(op.Ips) ELSE cur \ Range(op.Ips)

ExecuteStep ==
    /\ \A n \in Nodes :
          (pend[n] # <<>> /\ pend'[n] = <<>>) => alias'[n] = Head(pend[n])
    /\ \A w \in 1..MaxWorkers :
        LET n == wop[w].Instance
        IN /\ (wpc[w] = "Execute" /\ wpc'[w] = "UpdateAliasIPs") =>
                 /\ winst'[w] = alias[n]
                 /\ Range(wnew'[w]) = Desired(alias[n], wop[w])
                 /\ Len(wnew'[w]) = Cardinality(Desired(alias[n], wop[w]))
                 /\ Desired(alias[n], wop[w]) # alias[n]
           /\ (wpc[w] = "Execute" /\ wpc'[w] = "send" /\ faults' = faults) =>
                 Desired(alias[n], wop[w]) = alias[n]
           /\ (wpc[w] = "UpdateAliasIPs" /\ wpc'[w] = "WaitForUpdate") =>
                 pend'[n] = <<Range(wnew[w])>>

C20_WritesDesiredSet == [][ExecuteStep]_vars

\* C20 witness: an Add whose instance, as re-fetched, is not as the planning
\* snapshot had it and holds one of the operation's addresses already; the
\* update has become visible.
C20_Witness ==
    /\ wpc[1] = "WaitForUpdate"
    /\ wop[1].Type = "Add"
    /\ winst[1] # instances[wop[1].Instance]
    /\ winst[1] \cap Range(wop[1].Ips) # {}
    /\ pend[wop[1].Instance] = <<>>
    /\ alias[wop[1].Instance] = winst[1] \cup Range(wop[1].Ips)

\* C21: Execute, its re-fetch having succeeded, returns 0 without an update
\* request exactly when the set it wants is the set the instance has (an Add
\* of addresses it all has, a Remove of addresses it has none of); when the
\* two differ it goes on to the update request.
ShortCircuitStep ==
    \A w \in 1..MaxWorkers :
        (wpc[w] = "Execute" /\ wpc'[w] # wpc[w] /\ faults' = faults) =>
            LET cur == alias[wop[w].Instance]
                same == IF wop[w].Type = "Add"
                        THEN Range(wop[w].Ips) \subseteq cur
                        ELSE Range(wop[w].Ips) \cap cur = {}
            IN /\ same <=> Desired(cur, wop[w]) = cur
               /\ same <=> (/\ wpc'[w] = "send"
                            /\ wres'[w] = 0
                            /\ UNCHANGED <<gceVars, accepted>>)
               /\ ~same <=> wpc'[w] = "UpdateAliasIPs"

C21_ShortCircuit == [][ShortCircuitStep]_vars

\* C21 witness: Execute has returned 0 for a Remove of addresses the
\* instance, which holds others, has none of; no call failed.
C21_Witness ==
    /\ wpc[1] = "send"
    /\ wres[1] = 0
    /\ faults = 0
    /\ accepted = 0
    /\ winst[1] = {}
    /\ wop[1].Type = "Remove"
    /\ alias[wop[1].Instance] # {}
    /\ Range(wop[1].Ips) \cap alias[wop[1].Instance] = {}

\* C22: every address AllocateIps stages goes to an instance whose number of
\* alias IPs, those staged so far included, is the least of all instances
\* at that moment; so an instance that was given an address never plans
\* more than 1 above the least planned number, and a snapshot whose numbers
\* differ by at most 1 gives planned numbers that differ by at most 1.  The
\* loop taken one address at a time builds the operations AllocateIps builds.
Planned == [n \in DOMAIN instances |-> StagedLen(instances, operations, n)]

StagedAtMin ==
    (pc = "Stage" /\ pc' = "Stage") =>
        \E n \in DOMAIN operations :
            /\ Planned[n] = SetMin(Values(Planned))
            /\ Len(operations'[n].Ips) = Len(operations[n].Ips) + 1
            /\ \A m \in DOMAIN operations \ {n} : operations'[m] = operations[m]

C22_StagedAtMinimum ==
    /\ [][StagedAtMin]_vars
    /\ [](\A n \in DOMAIN operations :
             Len(operations[n].Ips) > 0 => Planned[n] <= SetMin(Values(Planned)) + 1)
    /\ [](Spread(Counts(instances)) <= 1 => Spread(Planned) <= 1)
    /\ [](pc = "ExecuteParallel" => operations \in AllocatePlans(instances))

\* C22 witness: the loop is over; the snapshot had numbers differing by 1,
\* an instance was given two addresses and the planned numbers differ by 1.
C22_Witness ==
    /\ pc = "ExecuteParallel"
    /\ Spread(Counts(instances)) = 1
    /\ \E n \in DOMAIN operations : Len(operations[n].Ips) = 2
    /\ Spread(Planned) = 1

\* C23: the operations of a ReduceIps pass are one Remove for each instance
\* of the snapshot that holds more alias IPs than its target, and no other
\* operation; each carries as many addresses as the instance holds above
\* its target, each once, all of them alias IPs of that instance in the
\* snapshot.
C23_RemoveAboveTarget ==
    (pass = "reduce" /\ pc \in {"ExecuteParallel", "Changes"}) =>
        /\ DOMAIN operations =
              {n \in DOMAIN instances : Cardinality(instances[n]) > target[n]}
        /\ \A n \in DOMAIN operations :
              /\ operations[n].Type = "Remove"
              /\ operations[n].Instance = n
              /\ Len(operations[n].Ips) = Cardinality(instances[n]) - target[n]
              /\ Cardinality(Range(operations[n].Ips)) = Len(operations[n].Ips)
              /\ Range(operations[n].Ips) \subseteq instances[n]

\* C23 witness: ReduceIps has built a Remove for one instance and none for
\* another and is about to send it.
C23_Witness ==
    /\ pass = "reduce"
    /\ pc = "ExecuteParallel"
    /\ inFlight = 0
    /\ todo # {}
    /\ DOMAIN instances \ DOMAIN operations # {}

\* C24: when GetInstance fails in Execute, the Worker makes no update
\* request and has the result 0 to send, which ExecuteParallel takes like
\* any other once it collects; the other Workers and their operations are
\* not touched, and every operation whose re-fetch did not fail counts 1.
GetFailedStep ==
    \A w \in 1..MaxWorkers :
        (wpc[w] = "Execute" /\ wpc'[w] # wpc[w] /\ faults' # faults) =>
            /\ wpc'[w] = "send"
            /\ wres'[w] = 0
            /\ wop'[w] = wop[w]
            /\ \A v \in 1..MaxWorkers \ {w} :
                  /\ wpc'[v] = wpc[v]
                  /\ wop'[v] = wop[v]
                  /\ wres'[v] = wres[v]
            /\ UNCHANGED <<gceVars, execVars, pc, operations>>

C24_GetFailureIsolated ==
    /\ [][GetFailedStep]_vars
    /\ [](\A w \in 1..workers :
             (pc = "ExecuteParallel" /\ todo = {} /\ wpc[w] = "send") =>
                 ENABLED ExecuteParallelReceive(w))
    /\ []((pc = "ExecuteParallel" /\ todo = {} /\ received = inFlight) =>
             /\ changes <= inFlight
             /\ changes >= inFlight - faults)

\* C24 witness: a pass has returned 1 for a batch of two operations, the
\* re-fetch of one of which failed.
C24_Witness ==
    /\ pc \in {"ReduceIps", "Changes"}
    /\ inFlight = 2
    /\ faults = 1
    /\ ret = 1

\* C25: every operation ExecuteParallel has sent is held by one Worker or
\* its result has been received, never both and never by two Workers; a
\* Worker holds only an operation of the batch in progress; the results
\* received are as many as were added to changes, each 0 or 1; and when no
\* batch is in progress no Worker holds an operation or a result.
Busy == {w \in 1..MaxWorkers : wpc[w] # "recv"}

C25_ExactlyOnce ==
    /\ pc = "ExecuteParallel" =>
          /\ Cardinality(todo) + inFlight = Cardinality(Submittable)
          /\ inFlight = received + Cardinality(Busy)
          /\ changes <= received
          /\ \A w \in Busy :
                /\ wop[w].Instance \in Submittable \ todo
                /\ wop[w] = operations[wop[w].Instance]
          /\ \A w, v \in Busy : w # v => wop[w].Instance # wop[v].Instance
    /\ pc # "ExecuteParallel" => Busy = {}
    /\ \A w \in 1..MaxWorkers \ Busy : wop[w] = NoOp /\ wres[w] = 0
    /\ Busy \subseteq 1..workers

\* C25 witness: the results of both operations of a batch have been
\* received and counted, and both Workers are idle again.
C25_Witness ==
    /\ pc = "ExecuteParallel"
    /\ Cardinality(Submittable) = 2
    /\ received = 2
    /\ changes = 2
    /\ Busy = {}

\* C26: WaitForUpdate returns: the Worker that waits reaches its send.  A
\* poll happens only while elapsedSeconds is below cfg.Gcp.WaitSeconds
\* (none when that is 0, where only the return is possible); a poll that
\* observes as many addresses as desired, or whose fetch fails, returns;
\* any other poll leaves elapsedSeconds strictly larger; and once
\* elapsedSeconds has reached cfg.Gcp.WaitSeconds the call returns without
\* another poll.
Waiting(w) == wpc[w] = "WaitForUpdate"

Observed(w) == Cardinality(alias[wop[w].Instance])

WaitLoopStep ==
    \A w \in 1..MaxWorkers :
       (Waiting(w) /\ <<wpc[w], elapsedSeconds[w], faults>>'
                        # <<wpc[w], elapsedSeconds[w], faults>>) =>
          IF elapsedSeconds[w] >= waitSeconds
          THEN /\ wpc'[w] = "send"
               /\ faults' = faults
               /\ elapsedSeconds'[w] = elapsedSeconds[w]
          ELSE IF faults' # faults \/ Len(wnew[w]) = Observed(w)
          THEN wpc'[w] = "send"
          ELSE /\ Waiting(w)'
               /\ elapsedSeconds'[w] > elapsedSeconds[w]

C26_WaitForUpdateReturns ==
    /\ <>(\A w \in 1..MaxWorkers : ~Waiting(w))
    /\ [][WaitLoopStep]_vars
    /\ [](\A w \in 1..MaxWorkers :
            (Waiting(w) /\ waitSeconds = 0) =>
               /\ ~ENABLED WaitPoll(w)
               /\ ~ENABLED WaitPollError(w)
               /\ ENABLED WaitTimeout(w))
    /\ [](\A w \in 1..MaxWorkers :
            (Waiting(w) /\ elapsedSeconds[w] < waitSeconds) =>
               /\ ENABLED WaitPoll(w)
               /\ ~ENABLED WaitTimeout(w))

\* C26 witness: the update never became visible, no fetch failed, and the
\* call has returned after polls that took elapsedSeconds from 0 to the
\* configured maximum of 6 seconds or beyond.
C26_Witness ==
    /\ wpc[1] = "send"
    /\ wres[1] = 1
    /\ waitSeconds = MaxWaitSeconds
    /\ elapsedSeconds[1] >= waitSeconds
    /\ faults = 0
    /\ pend[wop[1].Instance] # <<>>

\* C27: the operations map of a pass holds, under each node name, an
\* operation on that node, so the operations of a batch are on pairwise
\* different nodes; and no node has two Workers between the re-fetch and
\* the end of the wait at the same time.
Modifying(n) ==
    {w \in 1..MaxWorkers :
        /\ wpc[w] \in {"Execute", "UpdateAliasIPs", "WaitForUpdate"}
        /\ wop[w].Instance = n}

C27_OneOperationPerNode ==
    /\ \A n \in DOMAIN operations : operations[n].Instance = n
    /\ \A n, m \in DOMAIN operations :
          operations[n].Instance = operations[m].Instance => n = m
    /\ \A n \in Nodes : Cardinality(Modifying(n)) <= 1

\* C27 witness: two Workers are changing two different nodes at the same
\* time, one about to write and one waiting for its write to show.
C27_Witness ==
    /\ pc = "ExecuteParallel"
    /\ \E w, v \in 1..MaxWorkers :
          /\ wpc[w] = "UpdateAliasIPs"
          /\ wpc[v] = "WaitForUpdate"
          /\ wop[w].Instance # wop[v].Instance

\* C28: from a state where every pool address is on exactly one node, the
\* counts differ by at most 1 and no update is on its way, a cycle goes
\* from AllocateIps through ReduceIps to the sleep and back without
\* handing an operation to a Worker, without a write and without changing
\* any node's addresses, both passes return 0 and changes is 0 when the
\* main loop tests it; and each of these steps can be taken.
Quiet ==
    /\ Balanced
    /\ C2_AtMostOneNode
    /\ NothingPending
    /\ WorkersIdle
    /\ \/ pc \in {"AllocateIps", "Sleep"}
       \/ /\ pc \in {"ReduceIps", "RobinHood", "Operations"}
          /\ mainChanges = 0
       \/ /\ pc = "ExecuteParallel"
          /\ mainChanges = 0
          /\ pass = "reduce"
          /\ operations = Empty
          /\ todo = {}
          /\ inFlight = 0
          /\ accepted = 0
       \/ /\ pc = "Changes"
          /\ mainChanges = 0
          /\ ret = 0

QuietSuccessor(p) ==
    CASE p = "AllocateIps" -> "ReduceIps"
      [] p = "ReduceIps" -> "RobinHood"
      [] p = "RobinHood" -> "Operations"
      [] p = "Operations" -> "ExecuteParallel"
      [] p = "ExecuteParallel" -> "Changes"
      [] p = "Changes" -> "Sleep"
      [] p = "Sleep" -> "AllocateIps"

QuietStep ==
    Quiet =>
       /\ Quiet'
       /\ pc' = QuietSuccessor(pc)
       /\ UNCHANGED <<alias, pend, workerVars>>
       /\ pc \in {"AllocateIps", "ExecuteParallel"} => ret' = 0
       /\ pc = "RobinHood" => target = Counts(alias)

C28_FixedPoint ==
    /\ [][QuietStep]_vars
    /\ [](Quiet => ENABLED NextReliable)

\* C28 witness: the loop sleeps after a cycle over three addresses held by
\* two nodes, two and one, in which both passes returned 0.
C28_Witness ==
    /\ Quiet
    /\ pc = "Sleep"
    /\ pass = "reduce"
    /\ mainChanges = 0
    /\ ret = 0
    /\ Spread(Held) = 1

====
